---- MODULE Spec2Model ----
(***************************************************************************)
(* Model of package calendar (src/calendar.go): the process-wide           *)
(* configuration (firstWeekday, currentLocale), the calendar arithmetic    *)
(* (IsLeap, LeapDays, Weekday, MonthRange) and the month grid builder      *)
(* (MonthCalendar).                                                        *)
(*                                                                         *)
(* A behaviour is one caller working with a fixed (year, month): Init      *)
(* draws the two arguments, every action is one call of an exported        *)
(* function with them.  The outcome of the last query is kept in `call`,   *)
(* the panic value of the last call of any kind in `panicMsg`.             *)
(*                                                                         *)
(* Go slices are 0-based, TLA+ sequences 1-based: cal[w][d] of the code is *)
(* cal[w+1][d+1] here, DayNames[wd] is DayNames[wd+1], MonthNames[m] is    *)
(* MonthNames[m+1].                                                        *)
(***************************************************************************)
EXTENDS Integers, Sequences, FiniteSets, TLC

VARIABLES
    firstWeekday,   \* var firstWeekday               (calendar.go:70)
    currentLocale,  \* var currentLocale              (calendar.go:58)
    year,           \* the caller's year argument
    month,          \* the caller's month argument
    call,           \* the last query: [op, args, fw, ret]
    panicMsg        \* panic value of the last call, "" when it returned

vars == <<firstWeekday, currentLocale, year, month, call, panicMsg>>

----------------------------------------------------------------------------
(* Bounds of the model *)

YearSpan    == 27   \* GridYears is 2000 .. 2000 + YearSpan (a full 28-year cycle)
SmallYears  == 8    \* Years also holds -SmallYears .. SmallYears
MonthSlack  == 2    \* month arguments run over 1 - MonthSlack .. 12 + MonthSlack
WdSlack     == 2    \* SetFirstWeekday arguments run over -WdSlack .. 6 + WdSlack
LenSlack    == 1    \* locale field lengths run LenSlack around 7 and 13
MaxWidth    == 3    \* width arguments of the text renderer run over 1 .. MaxWidth
MaxLines    == 1    \* lines arguments of FormatMonth run over 0 .. MaxLines

----------------------------------------------------------------------------
(* Weekday constants *)

Sunday    == 0
Monday    == 1
Tuesday   == 2
Wednesday == 3
Thursday  == 4
Friday    == 5
Saturday  == 6

----------------------------------------------------------------------------
(* Go integer arithmetic: / and % truncate toward zero *)

GoQuo(a, b) == IF a >= 0 THEN a \div b ELSE -((-a) \div b)

GoRem(a, b) == a - b * GoQuo(a, b)

(* The outcome of a call: a value, or a panic with its message *)

NoValue == <<>>

Return(v) == [panic |-> "", val |-> v]

Panic(msg) == [panic |-> msg, val |-> NoValue]

----------------------------------------------------------------------------
(* Locale tables *)

defaultDayNames == <<"Sunday", "Monday", "Tuesday", "Wednesday", "Thursday", "Friday", "Saturday">>

defaultDayAbbrs == <<"Sun", "Mon", "Tue", "Wed", "Thu", "Fri", "Sat">>

defaultMonthNames == <<"", "January", "February", "March", "April", "May", "June", "July", "August", "September", "October", "November", "December">>

defaultMonthAbbrs == <<"", "Jan", "Feb", "Mar", "Apr", "May", "Jun", "Jul", "Aug", "Sep", "Oct", "Nov", "Dec">>

DefaultLocale ==
    [DayNames   |-> defaultDayNames,
     DayAbbrs   |-> defaultDayAbbrs,
     MonthNames |-> defaultMonthNames,
     MonthAbbrs |-> defaultMonthAbbrs]

----------------------------------------------------------------------------
(* Calendar arithmetic *)

IsLeap_no400(y) == GoRem(y, 4) = 0 /\ GoRem(y, 100) # 0

IsLeap(y) == GoRem(y, 4) = 0 /\ (GoRem(y, 100) # 0 \/ GoRem(y, 400) = 0)

LeapsUpTo(y) == GoQuo(y, 4) - GoQuo(y, 100) + GoQuo(y, 400)

LeapDays(y1, y2) == LeapsUpTo(y2) - LeapsUpTo(y1)

(* time.Date(year, month, day, 0, 0, 0, 0, time.UTC).Weekday(): the days   *)
(* from 0001-01-01, a Monday of the proleptic Gregorian calendar, to the   *)
(* date, modulo 7.  Only called with month in 1..12 (MonthRange guards it).*)

daysBefore == <<0, 31, 59, 90, 120, 151, 181, 212, 243, 273, 304, 334>>

DaysSinceEpoch(y) ==
    365 * (y - 1) + ((y - 1) \div 4) - ((y - 1) \div 100) + ((y - 1) \div 400)

DateDays(y, m, d) ==
    DaysSinceEpoch(y) + daysBefore[m]
        + (IF IsLeap(y) /\ m >= 3 THEN 1 ELSE 0) + (d - 1)

Weekday_epochSunday(y, m, d) == DateDays(y, m, d) % 7

Weekday(y, m, d) == (Monday + DateDays(y, m, d)) % 7

MonthRange_clamp(y, m) ==
    LET mm   == IF m < 1 THEN 1 ELSE IF m > 12 THEN 12 ELSE m
        days == IF mm \in {4, 6, 9, 11} THEN 30
                ELSE IF mm = 2 THEN (IF IsLeap(y) THEN 29 ELSE 28)
                ELSE 31
    IN  Return(<<Weekday(y, mm, 1), days>>)

MonthRange(y, m) ==
    IF m < 1 \/ m > 12
    THEN Panic("month must be 1-12")
    ELSE LET days == IF m \in {4, 6, 9, 11} THEN 30
                     ELSE IF m = 2 THEN (IF IsLeap(y) THEN 29 ELSE 28)
                     ELSE 31
         IN  Return(<<Weekday(y, m, 1), days>>)

----------------------------------------------------------------------------
(* Month grid builder *)

RECURSIVE FillRow_shiftOffByOne(_, _, _, _, _, _, _)
FillRow_shiftOffByOne(w, d, day, row, empty, shift, days) ==
    IF d >= 7
    THEN [row |-> row, day |-> day, empty |-> empty]
    ELSE IF w * 7 + d <= shift \/ day > days
         THEN FillRow_shiftOffByOne(w, d + 1, day, Append(row, 0), empty, shift, days)
         ELSE FillRow_shiftOffByOne(w, d + 1, day + 1, Append(row, day), FALSE, shift, days)

(* the inner loop `for d := 0; d < 7; d++` of week w *)
RECURSIVE FillRow(_, _, _, _, _, _, _)
FillRow(w, d, day, row, empty, shift, days) ==
    IF d >= 7
    THEN [row |-> row, day |-> day, empty |-> empty]
    ELSE IF w * 7 + d < shift \/ day > days
         THEN FillRow(w, d + 1, day, Append(row, 0), empty, shift, days)
         ELSE FillRow(w, d + 1, day + 1, Append(row, day), FALSE, shift, days)

RECURSIVE FillWeeks_fiveRows(_, _, _, _, _)
FillWeeks_fiveRows(w, day, cal, shift, days) ==
    IF w >= 5
    THEN cal
    ELSE LET r == FillRow(w, 0, day, <<>>, TRUE, shift, days)
         IN  IF r.empty
             THEN cal
             ELSE FillWeeks_fiveRows(w + 1, r.day, Append(cal, r.row), shift, days)

RECURSIVE FillWeeks_noBreak(_, _, _, _, _)
FillWeeks_noBreak(w, day, cal, shift, days) ==
    IF w >= 6
    THEN cal
    ELSE LET r == FillRow(w, 0, day, <<>>, TRUE, shift, days)
         IN  FillWeeks_noBreak(w + 1, r.day, Append(cal, r.row), shift, days)

(* the outer loop `for w := 0; w < 6; w++`, left at the first empty row *)
RECURSIVE FillWeeks(_, _, _, _, _)
FillWeeks(w, day, cal, shift, days) ==
    IF w >= 6
    THEN cal
    ELSE LET r == FillRow(w, 0, day, <<>>, TRUE, shift, days)
         IN  IF r.empty
             THEN cal
             ELSE FillWeeks(w + 1, r.day, Append(cal, r.row), shift, days)

MonthCalendar(y, m) ==
    LET r == MonthRange(y, m)
    IN  IF r.panic # ""
        THEN r
        ELSE LET wd    == r.val[1]
                 days  == r.val[2]
                 shift == GoRem(wd - firstWeekday + 7, 7)
             IN  Return(FillWeeks(0, 1, <<>>, shift, days))

----------------------------------------------------------------------------
(* Strings and fmt verbs.  A Go string is a TLA+ string; len, + and s[i:j]  *)
(* are Len, \o and SubSeq.  All names of the locales used are ASCII.        *)

Digits == <<"0", "1", "2", "3", "4", "5", "6", "7", "8", "9">>

(* strings.Repeat(unit, n) for n >= 0, built by doubling *)
RECURSIVE Repeat(_, _)
Repeat(unit, n) ==
    IF n <= 0
    THEN ""
    ELSE LET half == Repeat(unit, n \div 2)
         IN  half \o half \o (IF n % 2 = 1 THEN unit ELSE "")

(* the verb %d *)
RECURSIVE Itoa(_)
Itoa(n) ==
    IF n < 0 THEN "-" \o Itoa(-n)
    ELSE IF n < 10 THEN Digits[n + 1]
    ELSE Itoa(n \div 10) \o Digits[(n % 10) + 1]

(* the verb %*s: pad with spaces on the left up to width, never cut; a     *)
(* negative width pads on the right up to -width                           *)
PadStar(width, str) ==
    IF width >= 0
    THEN Repeat(" ", width - Len(str)) \o str
    ELSE str \o Repeat(" ", (-width) - Len(str))

(* the panic of the Go runtime for names[i] with i outside the slice *)
IndexPanic(i, n) ==
    IF i < 0
    THEN "runtime error: index out of range [" \o Itoa(i) \o "]"
    ELSE "runtime error: index out of range [" \o Itoa(i) \o "] with length " \o Itoa(n)

(* names[i] of a Go slice *)
Index(names, i) ==
    IF i < 0 \/ i >= Len(names)
    THEN Panic(IndexPanic(i, Len(names)))
    ELSE Return(names[i + 1])

----------------------------------------------------------------------------
(* Text renderer *)

RECURSIVE weekHeaderFrom_noCut(_, _)
weekHeaderFrom_noCut(i, width) ==
    IF i >= 7
    THEN ""
    ELSE LET wd   == GoRem(i + firstWeekday, 7)
             abbr == currentLocale.DayAbbrs[wd + 1]
         IN  PadStar(width, abbr) \o " " \o weekHeaderFrom_noCut(i + 1, width)

(* the loop `for i := 0; i < 7; i++` of weekHeader, from column i on;      *)
(* called with width >= 0                                                   *)
RECURSIVE weekHeaderFrom(_, _)
weekHeaderFrom(i, width) ==
    IF i >= 7
    THEN ""
    ELSE LET wd   == GoRem(i + firstWeekday, 7)
             abbr == currentLocale.DayAbbrs[wd + 1]
             cut  == IF Len(abbr) > width THEN SubSeq(abbr, 1, width) ELSE abbr
         IN  PadStar(width, cut) \o " " \o weekHeaderFrom(i + 1, width)

weekHeader(width) ==
    LET str == weekHeaderFrom(0, width)
    IN  SubSeq(str, 1, Len(str) - 1)

RECURSIVE FormatWeek_zeroShown(_, _, _)
FormatWeek_zeroShown(week, d, width) ==
    IF d > Len(week)
    THEN ""
    ELSE PadStar(width, Itoa(week[d])) \o " " \o FormatWeek_zeroShown(week, d + 1, width)

(* the loop `for _, d := range week` of FormatMonth, from cell d on *)
RECURSIVE FormatWeek(_, _, _)
FormatWeek(week, d, width) ==
    IF d > Len(week)
    THEN ""
    ELSE (IF week[d] = 0
          THEN PadStar(width, "") \o " "
          ELSE PadStar(width, Itoa(week[d])) \o " ")
         \o FormatWeek(week, d + 1, width)

(* the loop `for _, week := range cal` of FormatMonth, from week w on *)
RECURSIVE FormatWeeks(_, _, _, _)
FormatWeeks(cal, w, width, lines) ==
    IF w > Len(cal)
    THEN ""
    ELSE FormatWeek(cal[w], 1, width) \o "\n"
         \o (IF lines > 0 THEN Repeat("\n", lines) ELSE "")
         \o FormatWeeks(cal, w + 1, width, lines)

FormatMonth(y, m, width0, lines) ==
    LET width == IF width0 < 2 THEN 2 ELSE width0
        name  == Index(currentLocale.MonthNames, m)
    IN  IF name.panic # ""
        THEN name
        ELSE LET header == name.val \o " " \o Itoa(y)
                 title  == PadStar(GoQuo(7 * (width + 1) - 1 + Len(header), 2), header) \o "\n"
                 head   == weekHeader(width) \o "\n"
                 cal    == MonthCalendar(y, m)
             IN  IF cal.panic # ""
                 THEN cal
                 ELSE Return(title \o head \o FormatWeeks(cal.val, 1, width, lines))

(* strings.Join(parts, sep), from part i on *)
RECURSIVE Join(_, _, _)
Join(parts, i, sep) ==
    IF i > Len(parts) THEN ""
    ELSE IF i = Len(parts) THEN parts[i]
    ELSE parts[i] \o sep \o Join(parts, i + 1, sep)

(* row 2 of a month of FormatYear: the first week of the month only *)
YearWeek(y, m, width) ==
    LET cal == MonthCalendar(y, m).val
    IN  IF Len(cal) > 0
        THEN LET wstr == FormatWeek(cal[1], 1, width)
             IN  <<SubSeq(wstr, 1, Len(wstr) - 1)>>
        ELSE <<>>

(* the loop `for col := 0; col < monthsPerRow && m+col <= 12; col++`:      *)
(* the parts of line `row` of the months m+col, m+col+1, ...               *)
RECURSIVE YearParts(_, _, _, _, _, _)
YearParts(y, m, col, row, width, monthsPerRow) ==
    IF ~(col < monthsPerRow /\ m + col <= 12)
    THEN <<>>
    ELSE (IF row = 0
          THEN <<PadStar(7 * (width + 1) - 1, currentLocale.MonthNames[m + col + 1])>>
          ELSE IF row = 1
               THEN <<weekHeader(width)>>
               ELSE YearWeek(y, m + col, width))
         \o YearParts(y, m, col + 1, row, width, monthsPerRow)

(* the loop `for row := 0; row < 3; row++` of one band of months *)
RECURSIVE YearRows(_, _, _, _, _)
YearRows(y, m, row, width, monthsPerRow) ==
    IF row >= 3
    THEN ""
    ELSE Join(YearParts(y, m, 0, row, width, monthsPerRow), 1, "   ") \o "\n"
         \o YearRows(y, m, row + 1, width, monthsPerRow)

(* the loop `for m := 1; m <= 12; m += monthsPerRow` *)
RECURSIVE YearBands(_, _, _, _)
YearBands(y, m, width, monthsPerRow) ==
    IF m > 12
    THEN ""
    ELSE YearRows(y, m, 0, width, monthsPerRow) \o "\n"
         \o YearBands(y, m + monthsPerRow, width, monthsPerRow)

(* called with width >= 0; lines is not used by the code *)
FormatYear(y, width, lines, monthsPerRow0) ==
    LET monthsPerRow == IF monthsPerRow0 < 1 \/ monthsPerRow0 > 12 THEN 3 ELSE monthsPerRow0
    IN  Return(PadStar(monthsPerRow * 20, Itoa(y)) \o "\n\n"
               \o YearBands(y, 1, width, monthsPerRow))

----------------------------------------------------------------------------
(* HTML renderer.  The markup is kept as its element tree: the table is the *)
(* sequence of its <tr> rows, a row the sequence of its <th>/<td> cells, a  *)
(* cell its tag, class attribute and text.                                  *)

cssclasses == <<"mon", "tue", "wed", "thu", "fri", "sat", "sun">>

NewHTMLCalendar(fwd) ==
    [firstweekday |-> IF fwd < 0 \/ fwd > 6 THEN Monday ELSE fwd,
     cssclasses   |-> cssclasses]

(* the header row: `for i := 0; i < 7; i++` *)
HTMLHeader(c) ==
    [i \in 1 .. 7 |->
        LET wd == GoRem((i - 1) + c.firstweekday, 7)
        IN  [tag |-> "th", class |-> c.cssclasses[wd + 1], text |-> currentLocale.DayAbbrs[wd + 1]]]

(* one week row: `for d, day := range week` *)
HTMLWeek(c, week) ==
    [i \in 1 .. Len(week) |->
        LET wd == GoRem((i - 1) + c.firstweekday, 7)
        IN  IF week[i] = 0
            THEN [tag |-> "td", class |-> "noday", text |-> "&nbsp;"]
            ELSE [tag |-> "td", class |-> c.cssclasses[wd + 1], text |-> Itoa(week[i])]]

FormatMonthHTML(c, y, m, withyear) ==
    LET name == Index(currentLocale.MonthNames, m)
    IN  IF name.panic # ""
        THEN name
        ELSE LET title == IF withyear THEN name.val \o " " \o Itoa(y) ELSE name.val
                 cal   == MonthCalendar(y, m)
             IN  IF cal.panic # ""
                 THEN cal
                 ELSE Return(<< <<[tag |-> "th", class |-> "month", text |-> title, colspan |-> 7]>>,
                                HTMLHeader(c) >>
                             \o [w \in 1 .. Len(cal.val) |-> HTMLWeek(c, cal.val[w])])

----------------------------------------------------------------------------
(* Arguments the callers use *)

GridYears == 2000 .. (2000 + YearSpan)

CenturyYears == {-400, -100, 100, 400, 1900}

Years == (-SmallYears .. SmallYears) \cup CenturyYears \cup GridYears

Months == (1 - MonthSlack) .. (12 + MonthSlack)

WeekdayArgs == (-WdSlack) .. (6 + WdSlack)

(* locales a caller may pass to SetLocale: two complete ones besides the   *)
(* default, and each of the three with one field cut or padded to n names  *)
CustomLocale ==
    [DayNames   |-> <<"domingo", "lunes", "martes", "miercoles", "jueves", "viernes", "sabado">>,
     DayAbbrs   |-> <<"dom", "lun", "mar", "mie", "jue", "vie", "sab">>,
     MonthNames |-> <<"", "Enero", "Febrero", "Marzo", "Abril", "Mayo", "Junio", "Julio", "Agosto", "Septiembre", "Octubre", "Noviembre", "Diciembre">>,
     MonthAbbrs |-> <<"", "Ene", "Feb", "Mar", "Abr", "May", "Jun", "Jul", "Ago", "Sep", "Oct", "Nov", "Dic">>]

MixedLocale ==
    [DayNames   |-> CustomLocale.DayNames,
     DayAbbrs   |-> CustomLocale.DayAbbrs,
     MonthNames |-> defaultMonthNames,
     MonthAbbrs |-> defaultMonthAbbrs]

CompleteLocales == {DefaultLocale, CustomLocale, MixedLocale}

LocaleFields == {"DayNames", "DayAbbrs", "MonthNames", "MonthAbbrs"}

FieldLens == {0, 2} \cup ((7 - LenSlack) .. (7 + LenSlack)) \cup ((13 - LenSlack) .. (13 + LenSlack))

Resize(names, n) == [i \in 1 .. n |-> IF i <= Len(names) THEN names[i] ELSE "?"]

LocaleArgs ==
    CompleteLocales \cup
    {[base EXCEPT ![f] = Resize(base[f], n)] :
        base \in CompleteLocales, f \in LocaleFields, n \in FieldLens}

ConfigYears == {1900, 2000, 2026}

TextYears == {2000, 2026}

WidthArgs == 1 .. MaxWidth

LinesArgs == 0 .. MaxLines

PerRowArgs == {0, 1, 3, 12, 13}

YearWidthArgs == 2 .. MaxWidth

----------------------------------------------------------------------------
(* Operations *)

NoCall == [op |-> "none", args |-> <<>>, fw |-> Monday, ret |-> Return(NoValue)]

Query(op, args, ret) ==
    /\ call' = [op |-> op, args |-> args, fw |-> firstWeekday, ret |-> ret]
    /\ panicMsg' = ret.panic
    /\ UNCHANGED <<firstWeekday, currentLocale, year, month>>

LocalePanic == "Locale must have 7 days and 13 months (index 0 unused for months)"

SetLocale_allWrong(loc) ==
    IF Len(loc.DayNames) # 7 /\ Len(loc.DayAbbrs) # 7
        /\ Len(loc.MonthNames) # 13 /\ Len(loc.MonthAbbrs) # 13
    THEN /\ panicMsg' = LocalePanic
         /\ UNCHANGED <<firstWeekday, currentLocale, year, month, call>>
    ELSE /\ currentLocale' = loc
         /\ panicMsg' = ""
         /\ UNCHANGED <<firstWeekday, year, month, call>>

SetLocale(loc) ==
    IF Len(loc.DayNames) # 7 \/ Len(loc.DayAbbrs) # 7
        \/ Len(loc.MonthNames) # 13 \/ Len(loc.MonthAbbrs) # 13
    THEN /\ panicMsg' = LocalePanic
         /\ UNCHANGED <<firstWeekday, currentLocale, year, month, call>>
    ELSE /\ currentLocale' = loc
         /\ panicMsg' = ""
         /\ UNCHANGED <<firstWeekday, year, month, call>>

WeekdayPanic == "weekday must be 0-6"

SetFirstWeekday_offByOne(wd) ==
    IF wd < 0 \/ wd > 7
    THEN /\ panicMsg' = WeekdayPanic
         /\ UNCHANGED <<firstWeekday, currentLocale, year, month, call>>
    ELSE /\ firstWeekday' = wd
         /\ panicMsg' = ""
         /\ UNCHANGED <<currentLocale, year, month, call>>

SetFirstWeekday(wd) ==
    IF wd < 0 \/ wd > 6
    THEN /\ panicMsg' = WeekdayPanic
         /\ UNCHANGED <<firstWeekday, currentLocale, year, month, call>>
    ELSE /\ firstWeekday' = wd
         /\ panicMsg' = ""
         /\ UNCHANGED <<currentLocale, year, month, call>>

CallFirstWeekday == Query("FirstWeekday", <<>>, Return(firstWeekday))

CallIsLeap == Query("IsLeap", <<year>>, Return(IsLeap(year)))

CallLeapDays(y2) == Query("LeapDays", <<year, y2>>, Return(LeapDays(year, y2)))

CallMonthRange == Query("MonthRange", <<year, month>>, MonthRange(year, month))

CallMonthCalendar == Query("MonthCalendar", <<year, month>>, MonthCalendar(year, month))

CallFormatMonth(width, lines) ==
    Query("FormatMonth", <<year, month, width, lines>>, FormatMonth(year, month, width, lines))

CallFormatYear(width, monthsPerRow) ==
    Query("FormatYear", <<year, width, 0, monthsPerRow>>, FormatYear(year, width, 0, monthsPerRow))

CallFormatMonthHTML(fwd, withyear) ==
    Query("FormatMonthHTML", <<fwd, year, month, withyear>>,
          FormatMonthHTML(NewHTMLCalendar(fwd), year, month, withyear))

----------------------------------------------------------------------------
(* Specifications *)

InitWith(Y, M) ==
    /\ firstWeekday = Monday
    /\ currentLocale = DefaultLocale
    /\ year \in Y
    /\ month \in M
    /\ call = NoCall
    /\ panicMsg = ""

(* the month grid: MonthRange and MonthCalendar under every first weekday *)
Init == InitWith(GridYears \cup CenturyYears, Months)

Next ==
    \/ \E wd \in WeekdayArgs : SetFirstWeekday(wd)
    \/ CallMonthRange
    \/ CallMonthCalendar

Spec == Init /\ [][Next]_vars

(* the leap-year arithmetic over every year of Years *)
InitMath == InitWith(Years, {1})

NextMath ==
    \/ CallIsLeap
    \/ \E y2 \in Years : CallLeapDays(y2)

SpecMath == InitMath /\ [][NextMath]_vars

(* the process-wide first weekday and the queries that must not depend on it *)
InitConfig == InitWith(ConfigYears, Months)

NextConfig ==
    \/ \E wd \in WeekdayArgs : SetFirstWeekday(wd)
    \/ CallFirstWeekday
    \/ CallIsLeap
    \/ CallMonthRange

SpecConfig == InitConfig /\ [][NextConfig]_vars

(* the process-wide locale *)
InitLocale == InitWith(ConfigYears, {2})

NextLocale ==
    \/ \E loc \in LocaleArgs : SetLocale(loc)
    \/ \E wd \in WeekdayArgs : SetFirstWeekday(wd)

SpecLocale == InitLocale /\ [][NextLocale]_vars

(* the text renderer of one month *)
(* every month of 2026 and the leap February of 2000 *)
InitText == InitWith({2026}, Months) \/ InitWith({2000}, {2})

NextText ==
    \/ \E wd \in 0 .. 6 : SetFirstWeekday(wd)
    \/ \E width \in WidthArgs, lines \in LinesArgs : CallFormatMonth(width, lines)

SpecText == InitText /\ [][NextText]_vars

(* the text renderer of a year *)
InitYear == InitWith(TextYears, {1})

NextYear ==
    \/ \E wd \in 0 .. 6 : SetFirstWeekday(wd)
    \/ \E width \in YearWidthArgs, monthsPerRow \in PerRowArgs : CallFormatYear(width, monthsPerRow)

SpecYear == InitYear /\ [][NextYear]_vars

(* the HTML renderer of one month, for calendars of every firstweekday *)
InitHTML == InitWith({2026}, Months) \/ InitWith({2000}, {2})

NextHTML ==
    \/ \E wd \in 0 .. 6 : SetFirstWeekday(wd)
    \/ \E fwd \in WeekdayArgs : CallFormatMonthHTML(fwd, TRUE)

SpecHTML == InitHTML /\ [][NextHTML]_vars

(* both month renderers on every month argument, valid or not *)
InitRender == InitWith(TextYears, Months)

NextRender ==
    \/ \E width \in WidthArgs, lines \in LinesArgs : CallFormatMonth(width, lines)
    \/ \E fwd \in WeekdayArgs, withyear \in BOOLEAN : CallFormatMonthHTML(fwd, withyear)

SpecRender == InitRender /\ [][NextRender]_vars

----------------------------------------------------------------------------
(* Vocabulary of the properties *)

Returned(op) == call.op = op /\ call.ret.panic = ""

ValidMonth == month \in 1 .. 12

Grid == call.ret.val

(* the cells of a grid of 7-cell rows in row-major order *)
Cells(g) == [k \in 1 .. 7 * Len(g) |-> g[((k - 1) \div 7) + 1][((k - 1) % 7) + 1]]

IsDay(x) == x # 0

DayCells(g) == SelectSeq(Cells(g), IsDay)

(* what the month table of the Gregorian calendar says *)
TableDays(y, m) ==
    CASE m \in {4, 6, 9, 11} -> 30
      [] m = 2 /\ IsLeap(y)  -> 29
      [] m = 2               -> 28
      [] OTHER               -> 31

(* the leading cells of week 0 under the setting the grid was built with *)
ShiftOf(fw) == (Weekday(year, month, 1) - fw + 7) % 7

Divides(b, a) == \E k \in -(IF a < 0 THEN -a ELSE a) .. (IF a < 0 THEN -a ELSE a) : a = k * b

----------------------------------------------------------------------------
(* C1: for every valid (year, month) and every first weekday, MonthCalendar *)
(* returns rows of exactly 7 cells, and its non-zero cells read in          *)
(* row-major order are exactly 1, 2, ..., daysInMonth, daysInMonth being    *)
(* the second result of MonthRange(year, month).                            *)
C1_GridHoldsEveryDayOnce ==
    (call.op = "MonthCalendar" /\ ValidMonth) =>
        /\ call.ret.panic = ""
        /\ \A w \in 1 .. Len(Grid) : Len(Grid[w]) = 7
        /\ DayCells(Grid) = [i \in 1 .. MonthRange(year, month).val[2] |-> i]

C1_Witness ==
    /\ Returned("MonthCalendar")
    /\ Len(Grid) = 6
    /\ Grid[6][2] = 31
    /\ call.fw = Sunday

(* C2: the number of rows of MonthCalendar is ceil((shift + days) / 7) with *)
(* shift = (startWeekday - firstWeekday + 7) mod 7; it is 4, 5 or 6, and no *)
(* row holds only 0 cells.                                                  *)
C2_RowCount ==
    (call.op = "MonthCalendar" /\ ValidMonth) =>
        /\ call.ret.panic = ""
        /\ Len(Grid) = (ShiftOf(call.fw) + TableDays(year, month) + 6) \div 7
        /\ Len(Grid) \in {4, 5, 6}
        /\ \A w \in 1 .. Len(Grid) : \E d \in 1 .. Len(Grid[w]) : Grid[w][d] # 0

C2_Witness ==
    /\ Returned("MonthCalendar")
    /\ Len(Grid) = 4
    /\ Grid[4][7] = 28

(* C3: the first row starts with exactly shift zero cells, zero cells occur *)
(* only before day 1 in the first row or after the last day in the last    *)
(* row, every day d sits in the column c with (f + c) mod 7 =               *)
(* Weekday(year, month, d), and with f = Monday the grid of February 2026   *)
(* is [0,0,0,0,0,0,1], [2..8], [9..15], [16..22], [23..28,0].               *)
C3_ColumnsAreWeekdays ==
    (call.op = "MonthCalendar" /\ ValidMonth) =>
        LET f     == call.fw
            shift == ShiftOf(f)
            days  == TableDays(year, month)
            n     == Len(Grid)
        IN  /\ call.ret.panic = ""
            /\ n >= 1
            /\ \A c \in 0 .. 6 : (Grid[1][c + 1] = 0) <=> (c < shift)
            /\ Grid[1][shift + 1] = 1
            /\ \A w \in 1 .. n : \A c \in 0 .. 6 :
                   Grid[w][c + 1] = 0 =>
                       \/ w = 1 /\ \A c2 \in 0 .. c : Grid[1][c2 + 1] = 0
                       \/ w = n /\ \A c2 \in c .. 6 : Grid[n][c2 + 1] = 0
                                /\ \E c1 \in 0 .. 6 : Grid[n][c1 + 1] = days
            /\ \A w \in 1 .. n : \A c \in 0 .. 6 :
                   Grid[w][c + 1] # 0 =>
                       (f + c) % 7 = Weekday(year, month, Grid[w][c + 1])
            /\ (year = 2026 /\ month = 2 /\ f = Monday) =>
                   Grid = << <<0, 0, 0, 0, 0, 0, 1>>,
                             <<2, 3, 4, 5, 6, 7, 8>>,
                             <<9, 10, 11, 12, 13, 14, 15>>,
                             <<16, 17, 18, 19, 20, 21, 22>>,
                             <<23, 24, 25, 26, 27, 28, 0>> >>

C3_Witness ==
    /\ Returned("MonthCalendar")
    /\ year = 2026 /\ month = 2 /\ call.fw = Monday
    /\ Grid[1][7] = 1

(* C4: for all years 0 <= y1 <= y2, LeapDays(y1, y2) is the number of years *)
(* y with y1 <= y < y2 for which IsLeap(y) holds.                           *)
C4_LeapDaysCountsHalfOpen ==
    (Returned("LeapDays") /\ 0 <= call.args[1] /\ call.args[1] <= call.args[2]) =>
        call.ret.val =
            Cardinality({y \in call.args[1] .. (call.args[2] - 1) : IsLeap(y)})

(* C5: LeapDays(2000, 2005) returns 2 and LeapDays(1900, 2000) returns 25.  *)
C5_LeapDaysExamples ==
    Returned("LeapDays") =>
        /\ call.args = <<2000, 2005>> => call.ret.val = 2
        /\ call.args = <<1900, 2000>> => call.ret.val = 25

C7_DayCountOrInvalidMonth ==
    (call.op \in {"MonthRange", "MonthCalendar"}) =>
        /\ ValidMonth =>
               /\ call.ret.panic = ""
               /\ call.op = "MonthRange" =>
                      call.ret.val[2] =
                          (IF month \in {4, 6, 9, 11} THEN 30
                           ELSE IF month = 2
                                THEN (IF Divides(4, year) /\ (~Divides(100, year) \/ Divides(400, year))
                                      THEN 29 ELSE 28)
                                ELSE 31)
        /\ ~ValidMonth =>
               /\ call.ret.panic = "month must be 1-12"
               /\ call.ret.val = NoValue

C7_Witness ==
    /\ call.op = "MonthCalendar"
    /\ month = 13
    /\ call.ret.panic = "month must be 1-12"

(* C8: for every integer year, zero and negative years included,            *)
(* IsLeap(year) holds iff year is divisible by 4 and (not divisible by 100  *)
(* or divisible by 400); IsLeap(1900) is false, IsLeap(2000) and            *)
(* IsLeap(2004) are true.                                                   *)
C8_IsLeapRule ==
    (call.op = "IsLeap") =>
        /\ call.ret.panic = ""
        /\ call.ret.val = (Divides(4, year) /\ (~Divides(100, year) \/ Divides(400, year)))
        /\ year = 1900 => call.ret.val = FALSE
        /\ year \in {2000, 2004} => call.ret.val = TRUE

C8_Witness ==
    /\ Returned("IsLeap")
    /\ year = -400
    /\ call.ret.val = TRUE

(* C9: SetLocale with a locale that does not have exactly 7 day names, 7    *)
(* day abbreviations, 13 month names and 13 month abbreviations is rejected *)
(* and leaves the active locale as it was; the active locale is always the  *)
(* default or the whole locale of the most recent accepted call, with       *)
(* 7/7/13/13 entries.                                                       *)
WellFormed(loc) ==
    /\ Len(loc.DayNames) = 7
    /\ Len(loc.DayAbbrs) = 7
    /\ Len(loc.MonthNames) = 13
    /\ Len(loc.MonthAbbrs) = 13

C10_FirstWeekdaySetting ==
    /\ firstWeekday = 1
    /\ [](firstWeekday \in 0 .. 6)
    /\ [](call.op = "FirstWeekday" => call.ret = Return(call.fw) /\ call.ret.val \in 0 .. 6)
    /\ [][\A wd \in WeekdayArgs :
              SetFirstWeekday(wd) =>
                  IF wd \in 0 .. 6
                  THEN firstWeekday' = wd /\ panicMsg' = ""
                  ELSE firstWeekday' = firstWeekday /\ panicMsg' # ""]_vars
    /\ [][firstWeekday' # firstWeekday =>
              \E wd \in 0 .. 6 : SetFirstWeekday(wd) /\ firstWeekday' = wd]_vars
    /\ [][(call'.op = call.op /\ call.op \in {"IsLeap", "MonthRange"}) =>
              call'.ret = call.ret]_vars

C10_Witness ==
    /\ Returned("MonthRange")
    /\ call.fw = Saturday
    /\ firstWeekday = Sunday
    /\ panicMsg = WeekdayPanic

----------------------------------------------------------------------------
(* Reading a rendered text back *)

Char(str, i) == SubSeq(str, i, i)

IsSpace(c) == c \in {" ", "\n", "\t", "\r"}

(* the k-th smallest element of a set of positions *)
Nth(S, k) == CHOOSE x \in S : Cardinality({y \in S : y < x}) = k - 1

Newlines(str) == {i \in 1 .. Len(str) : Char(str, i) = "\n"}

(* strings.Split(str, "\n"): the lines of str *)
SplitLines(str) ==
    LET NL == Newlines(str)
        n  == Cardinality(NL)
    IN  [k \in 1 .. (n + 1) |->
            SubSeq(str,
                   IF k = 1 THEN 1 ELSE Nth(NL, k - 1) + 1,
                   IF k = n + 1 THEN Len(str) ELSE Nth(NL, k) - 1)]

(* str without its first n lines *)
DropLines(str, n) ==
    IF n = 0 THEN str
    ELSE IF Cardinality(Newlines(str)) < n THEN ""
    ELSE SubSeq(str, Nth(Newlines(str), n) + 1, Len(str))

(* strings.Fields(str): the maximal runs of non-space characters *)
Fields(str) ==
    LET ink(i)  == i \in 1 .. Len(str) /\ ~IsSpace(Char(str, i))
        starts  == {i \in 1 .. Len(str) : ink(i) /\ ~ink(i - 1)}
        ends    == {i \in 1 .. Len(str) : ink(i) /\ ~ink(i + 1)}
    IN  [k \in 1 .. Cardinality(starts) |-> SubSeq(str, Nth(starts, k), Nth(ends, k))]

IsNumber(tok) ==
    /\ tok # ""
    /\ \A i \in 1 .. Len(tok) : \E v \in 0 .. 9 : Digits[v + 1] = Char(tok, i)

DigitValue(c) == CHOOSE v \in 0 .. 9 : Digits[v + 1] = c

(* strconv.Atoi of a string of digits *)
RECURSIVE Atoi(_)
Atoi(tok) ==
    IF Len(tok) = 1
    THEN DigitValue(tok)
    ELSE 10 * Atoi(SubSeq(tok, 1, Len(tok) - 1)) + DigitValue(Char(tok, Len(tok)))

Contains(str, sub) ==
    \E i \in 1 .. (Len(str) - Len(sub) + 1) : SubSeq(str, i, i + Len(sub) - 1) = sub

February2026 ==
    << <<0, 0, 0, 0, 0, 0, 1>>,
       <<2, 3, 4, 5, 6, 7, 8>>,
       <<9, 10, 11, 12, 13, 14, 15>>,
       <<16, 17, 18, 19, 20, 21, 22>>,
       <<23, 24, 25, 26, 27, 28, 0>> >>

(* the text of FormatMonth(2026, 2, 2, 0) under first weekday Monday is a   *)
(* title line holding "February 2026", the week header `header`, and 5 grid *)
(* lines whose 2-wide fields hold the days of February 2026 right-justified *)
(* under the header field of their weekday, blank for the sentinel cells    *)
MonthTextWithHeader(header) ==
    LET lines == SplitLines(call.ret.val)
        field(l, c) == SubSeq(lines[l], 3 * c + 1, 3 * c + 2)
    IN  /\ call.ret.panic = ""
        /\ Len(lines) = 8
        /\ lines[8] = ""
        /\ Contains(lines[1], "February 2026")
        /\ lines[2] = header
        /\ \A w \in 1 .. 5 : \A c \in 0 .. 6 :
               LET d == February2026[w][c + 1]
               IN  /\ Len(lines[w + 2]) = 21
                   /\ Char(lines[w + 2], 3 * c + 3) = " "
                   /\ d = 0 => field(w + 2, c) = "  "
                   /\ d \in 1 .. 9 => field(w + 2, c) = " " \o Digits[d + 1]
                   /\ d >= 10 => field(w + 2, c) = Digits[(d \div 10) + 1] \o Digits[(d % 10) + 1]
                   /\ d # 0 =>
                          field(2, c) = SubSeq(defaultDayAbbrs[Weekday(2026, 2, d) + 1], 1, Len(field(2, c)))

IsFebruary2026Text ==
    /\ call.op = "FormatMonth"
    /\ call.args = <<2026, 2, 2, 0>>
    /\ call.fw = Monday
    /\ currentLocale = DefaultLocale

C12_TextRoundTrip ==
    (call.op = "FormatMonth" /\ ValidMonth) =>
        LET toks == Fields(DropLines(call.ret.val, 2))
        IN  /\ call.ret.panic = ""
            /\ Len(toks) = TableDays(year, month)
            /\ \A i \in 1 .. Len(toks) : IsNumber(toks[i]) /\ Atoi(toks[i]) = i

C12_Witness ==
    /\ Returned("FormatMonth")
    /\ call.args[3] = 1
    /\ call.args[4] = 1
    /\ call.fw = Wednesday
    /\ Contains(call.ret.val, " 9 10 ")
    /\ Contains(call.ret.val, "31 \n\n")

IsDigit(c) == \E v \in 0 .. 9 : Digits[v + 1] = c

(* how often the number d stands in str as a whole run of digits *)
Occurrences(str, d) ==
    LET tok == Itoa(d)
    IN  Cardinality({i \in 1 .. Len(str) :
            /\ SubSeq(str, i, i + Len(tok) - 1) = tok
            /\ (i = 1 \/ ~IsDigit(Char(str, i - 1)))
            /\ (i + Len(tok) > Len(str) \/ ~IsDigit(Char(str, i + Len(tok))))})

(* C13: for every year and every monthsPerRow, FormatYear renders all week  *)
(* rows of each of the 12 months: every day 1..daysInMonth of every month   *)
(* stands in the output, so day d stands there at least once for each month *)
(* that has a day d.                                                        *)
C13_YearShowsEveryDay ==
    Returned("FormatYear") =>
        \A d \in 1 .. 31 :
            Occurrences(call.ret.val, d)
                >= Cardinality({m \in 1 .. 12 : TableDays(year, m) >= d})

(* C14: for every month outside 1..12, FormatMonth and FormatMonthHTML fail *)
(* with the invalid-month error of MonthRange ("month must be 1-12"), with  *)
(* no other failure, and return no output.                                  *)
C14_RenderersRejectInvalidMonth ==
    (call.op \in {"FormatMonth", "FormatMonthHTML"} /\ ~ValidMonth) =>
        /\ call.ret.panic = "month must be 1-12"
        /\ call.ret.val = NoValue

(* the weekday a CSS class names *)
WeekdayClass == <<"sun", "mon", "tue", "wed", "thu", "fri", "sat">>

HTMLRows == call.ret.val

HTMLHeaderRow == HTMLRows[2]

HTMLWeekRows == SubSeq(HTMLRows, 3, Len(HTMLRows))

IsDayCell(cell) == cell.text # "&nbsp;"

(* C15: with the calendar's firstweekday equal to the process-wide first    *)
(* weekday and the default locale, every day cell of FormatMonthHTML has    *)
(* the CSS class of the weekday the date falls on, every header cell's      *)
(* class names the weekday of the abbreviation it shows, and every sentinel *)
(* cell has class "noday".                                                  *)
C15_CellClassIsWeekday ==
    (Returned("FormatMonthHTML") /\ call.args[1] = call.fw /\ currentLocale = DefaultLocale) =>
        /\ \A c \in 1 .. 7 :
               \E wd \in 0 .. 6 :
                   /\ HTMLHeaderRow[c].text = defaultDayAbbrs[wd + 1]
                   /\ HTMLHeaderRow[c].class = WeekdayClass[wd + 1]
        /\ \A w \in 1 .. Len(HTMLWeekRows) : \A c \in 1 .. 7 :
               LET cell == HTMLWeekRows[w][c]
               IN  IF IsDayCell(cell)
                   THEN cell.class = WeekdayClass[Weekday(year, month, Atoi(cell.text)) + 1]
                   ELSE cell.class = "noday"

(* C16: for every calendar NewHTMLCalendar(f), f in 0..6, and every         *)
(* process-wide first weekday g, the weekday shown in header column c of    *)
(* FormatMonthHTML is the weekday on which every day placed in column c of  *)
(* the month rows falls.                                                    *)
C16_HeaderMatchesColumns ==
    (Returned("FormatMonthHTML") /\ call.args[1] \in 0 .. 6 /\ currentLocale = DefaultLocale) =>
        \A w \in 1 .. Len(HTMLWeekRows) : \A c \in 1 .. 7 :
            LET cell == HTMLWeekRows[w][c]
            IN  IsDayCell(cell) =>
                    HTMLHeaderRow[c].text =
                        defaultDayAbbrs[Weekday(year, month, Atoi(cell.text)) + 1]

====
